---- MODULE Spec2Model ----
(***************************************************************************)
(* The resource graph that infrastructure/main.ts (MyStack) synthesizes    *)
(* from the working tree, and its realization by `cdktf deploy`            *)
(* (terraform apply): resources are created, updated and destroyed in any  *)
(* order that the declared dependencies permit.  The external effects of   *)
(* an apply are kept: the docker build-and-push of the null resource's     *)
(* provisioner, the S3 object uploads and deletes, the registered task     *)
(* definition, and where the service is placed.                            *)
(***************************************************************************)
EXTENDS Integers, Sequences, FiniteSets, TLC

VARIABLES
    variant,    \* which PushedECRImage of main.ts is in use: "class" | "function"
    backend,    \* working tree of application/backend: [version, src]
    frontend,   \* working tree of application/frontend/build: file -> bytes
    synth,      \* the tree as of the last `cdktf synth` (assets are copied)
    stack,      \* cdktf.out: the resources the last synth declared
    prev,       \* the tree of the deployment before that one
    pc,         \* "idle" | "apply"
    deploys,    \* number of deployments started
    edits,      \* number of changes made to the working tree
    tfstate,    \* terraform state: address -> the resource as applied
    registry,   \* ECR: pushed tag -> build context the image was built from
    bucket,     \* S3: key -> bytes, for the keys that have an object
    taskImage,  \* image of the registered task definition (NoImage: none)
    effects,    \* side effects of the current apply: [built, uploaded, deleted]
    failed,     \* resources whose creation failed in the current apply
    ran,        \* provisioner runs of the current apply: [steps, exit, attempts]
    request,    \* path of the last request sent to the distribution
    origin,     \* origin id the distribution chose for it
    target,     \* what answered it: the bucket, the service or the fixed 404
    calls,      \* names passed to exposeService so far, in call order
    constructs, \* construct ids in the scope exposeService adds to
    rules,      \* listener rules declared on the listener, in call order
    listing,    \* the build directory PublicS3Bucket was last given
    mimeDb,     \* extensions the installed mime-db had an entry for
    objects,    \* the S3Objects it declared: construct id -> object
    server,     \* the backend process: [pc, migration, starts]
    reqs,       \* its requests: id -> [route, pc, status, queried]
    ui,         \* the frontend: [modal, posts, timers, opens, submitted]
    net         \* its requests and the table: [posting, gets, issued, db]

deployVars == <<variant, backend, frontend, synth, stack, prev, pc, deploys,
                edits, tfstate, registry, bucket, taskImage, effects,
                failed, ran>>
routeVars == <<request, origin, target>>
exposeVars == <<calls, constructs, rules>>
publishVars == <<listing, mimeDb, objects>>
backendVars == <<server, reqs>>
frontendVars == <<ui, net>>
auxVars == <<routeVars, exposeVars, publishVars, backendVars, frontendVars>>
vars == <<deployVars, auxVars>>

\* ---------------------------------------------------------------- bounds
\* Deployments run, changes made to the working tree between them, and the
\* distinct byte contents a file can take.
MaxDeploys == 3
MaxEdits == 1
NumContents == 2
\* Longest request path, in tokens
MaxPathLen == 4
\* Calls of exposeService on one load balancer
MaxCalls == 3
\* Requests one backend process gets
MaxRequests == 2
\* Times the user opens the modal
MaxOpens == 2

Versions == <<"1.0.0", "1.0.1">>
Contents == 1..NumContents
NoImage == ""
\* No request was sent yet, or no behaviour applies.
NoOrigin == ""
\* Requests of the backend, and one that has not arrived
Requests == 1..MaxRequests
NoRequest == [route |-> "", pc |-> "none", status |-> "", queried |-> FALSE]
\* fetch(`${API_URL}/posts`) just sent: usePosts sends one when App mounts
Get(id) == [id |-> id, stage |-> "sent", rows |-> {}]
\* Files of application/frontend/build; the last is not matched by the glob.
BuildFiles == {"index.html", "main.js", "logo.svg"}

\* No deployment yet: there is no synthesized tree.
NoTree == [backend |-> [version |-> "", src |-> 0],
           frontend |-> [f \in BuildFiles |-> 0]]

\* --------------------------------------------------------- pure functions
\* glob("**/*.{json,js,html,png,ico,txt,map,css}", {cwd})
GlobExtensions == {"json", "js", "html", "png", "ico", "txt", "map", "css"}

\* Files a build directory can hold, in a fixed order
FileOrder ==
    <<"index.html", "main.js", "logo.svg", "favicon.ico", "manifest.json",
      "static/css/main.css", "static/js/main.js.map",
      ".well-known/assetlinks.json">>
PublishFiles == {FileOrder[i] : i \in DOMAIN FileOrder}

\* path.extname, without the dot
ExtName(f) ==
    CASE f = "index.html" -> "html"
      [] f = "main.js"    -> "js"
      [] f = "logo.svg"   -> "svg"
      [] f = "favicon.ico" -> "ico"
      [] f = "manifest.json" -> "json"
      [] f = "static/css/main.css" -> "css"
      [] f = "static/js/main.js.map" -> "map"
      [] f = ".well-known/assetlinks.json" -> "json"

\* Files with a path segment that starts with "."
DotFiles == {".well-known/assetlinks.json"}

\* Without the option dot, "*" and "**" match no segment that starts with "."
glob(dir) ==
    {f \in DOMAIN dir : ExtName(f) \in GlobExtensions /\ f \notin DotFiles}

\* lookup of mime-types: the type of an extension that mime-db has an entry
\* for, false (NoType) otherwise; "map" has an entry since mime-db 1.13.
NoType == ""
MimeType(ext) ==
    CASE ext = "json" -> "application/json"
      [] ext = "js"   -> "application/javascript"
      [] ext = "html" -> "text/html"
      [] ext = "png"  -> "image/png"
      [] ext = "ico"  -> "image/vnd.microsoft.icon"
      [] ext = "txt"  -> "text/plain"
      [] ext = "map"  -> "application/json"
      [] ext = "css"  -> "text/css"
      [] ext = "svg"  -> "image/svg+xml"
MimeDb == {"json", "js", "html", "png", "ico", "txt", "map", "css", "svg"}
MimeDbs == {MimeDb, MimeDb \ {"map"}}

mime(ext, db) == IF ext \in db THEN MimeType(ext) ELSE NoType

ContentTypeNoFallback(f, db) == mime(ExtName(f), db)

\* mime(path.extname(f)) || "text/html"
ContentType(f, db) ==
    IF mime(ExtName(f), db) # NoType THEN mime(ExtName(f), db) ELSE "text/html"

VersionIndex(v) == CHOOSE i \in DOMAIN Versions : Versions[i] = v

\* TerraformAsset.assetHash: a digest of the bytes of every file of the
\* directory, taken as collision-free (one digit per file, fixed order).
AssetHashBackend(b) == "H" \o ToString(VersionIndex(b.version)) \o ToString(b.src)

RECURSIVE HashDigits(_, _)
HashDigits(dir, i) ==
    IF i > Len(FileOrder) THEN ""
    ELSE (IF FileOrder[i] \in DOMAIN dir THEN ToString(dir[FileOrder[i]]) ELSE "-")
            \o HashDigits(dir, i + 1)

AssetHashFrontend(dir) == "H" \o HashDigits(dir, 1)

\* repo.repositoryUrl of the EcrRepository: MyStack names it "backend-image"
\* (class PushedECRImage) or "backend" (function PushedECRImage).
RepositoryUrl(v) == IF v = "class" THEN "ecr/backend-image" ELSE "ecr/backend"

\* require(`${projectPath}/package.json`).version
DeclaredVersion(b) == b.version

TagWithoutHash(url, version, assetHash) == url \o ":" \o version

TagVersionLast(url, version, assetHash) ==
    url \o ":" \o assetHash \o "-" \o version

\* this.tag = `${repo.repositoryUrl}:${version}-${asset.assetHash}`
PushedTag(url, version, assetHash) == url \o ":" \o version \o "-" \o assetHash

Tag(v, b) == PushedTag(RepositoryUrl(v), DeclaredVersion(b), AssetHashBackend(b))

\* ------------------------------------------------------ the resource graph
\* A resource as the apply engine sees it.  deps: explicit dependsOn and every
\* reference to another resource's attribute.  image, key, content: the
\* attributes whose change makes a diff.  provisioner: the tag that the
\* local-exec provisioner builds and pushes (creation-time only, no diff).
\* subnets, securityGroups: where the resource's network interfaces live.
R(deps) ==
    [deps |-> deps, image |-> NoImage, key |-> "", content |-> 0,
     contentType |-> NoType, provisioner |-> NoImage, subnets |-> "", securityGroups |-> {}]

\* An id that is new in every deployment.
ImageIdPerDeploy(v, tag) == "backend-image/image-" \o ToString(deploys)

\* new Resource(this, `image`, ...)  /  new Resource(scope, `${name}-image-${tag}`, {})
ImageId(v, tag) ==
    IF v = "class" THEN "backend-image/image" ELSE "backend-image-" \o tag

\* PushedECRImage: repository, authorization token, null resource with the
\* docker login && docker build && docker push provisioner.
PushedECRImage(v, b) ==
    ("backend-image/ecr" :> R({}))
 @@ ("backend-image/auth" :> R({"backend-image/ecr"}))
 @@ (ImageId(v, Tag(v, b)) :>
        [R({"backend-image/auth", "backend-image/ecr"})
            EXCEPT !.provisioner = Tag(v, b)])

\* PostgresDB: password, security group, RDS module.
DbPort == 5432

DbSecurityGroupIngress ==
    {[fromPort |-> DbPort, toPort |-> DbPort, protocol |-> "TCP",
      securityGroups |-> {"service-security-group"}, cidrBlocks |-> {}]}

PostgresDB ==
    ("db/db-password" :> R({}))
 @@ ("db/db-security-group" :> R({"vpc", "service-security-group"}))
 @@ ("db/db" :> [R({"vpc", "db/db-password", "db/db-security-group"})
                    EXCEPT !.subnets = "database",
                           !.securityGroups = {"db/db-security-group"}])

\* Cluster and Cluster.runDockerImage
TaskDependsOn(image) == {image}

Cluster ==
    ("cluster/ecs" :> R({}))
 @@ ("cluster/capacity-providers" :> R({"cluster/ecs"}))

runDockerImage(tag, image) ==
    ("cluster/execution-role" :> R({}))
 @@ ("cluster/task-role" :> R({}))
 @@ ("cluster/loggroup" :> R({"cluster/ecs"}))
 @@ ("cluster/task" :>
        [R(TaskDependsOn(image)
           \cup {"cluster/execution-role", "cluster/task-role",
                 "cluster/loggroup", "backend-image/ecr",
                 "db/db", "db/db-password"})
            EXCEPT !.image = tag])

\* The env argument of cluster.runDockerImage("backend", …): name -> value.
\* A value is a literal, or (from # "") an attribute of a resource, known
\* once that resource is applied.
EnvironmentWithoutDbPort ==
    [PORT |-> [from |-> "", value |-> "80"],
     POSTGRES_USER |-> [from |-> "", value |-> "dbuser"],
     POSTGRES_PASSWORD |-> [from |-> "db/db-password", value |-> "result"],
     POSTGRES_DB |-> [from |-> "", value |-> "db"],
     POSTGRES_HOST |-> [from |-> "db/db", value |-> "address"]]

EnvironmentWithoutPort ==
    [POSTGRES_USER |-> [from |-> "", value |-> "dbuser"],
     POSTGRES_PASSWORD |-> [from |-> "db/db-password", value |-> "result"],
     POSTGRES_DB |-> [from |-> "", value |-> "db"],
     POSTGRES_HOST |-> [from |-> "db/db", value |-> "address"],
     POSTGRES_PORT |-> [from |-> "db/db", value |-> "5432"]]

TaskEnvironment ==
    [PORT |-> [from |-> "", value |-> "80"],
     POSTGRES_USER |-> [from |-> "", value |-> "dbuser"],
     POSTGRES_PASSWORD |-> [from |-> "db/db-password", value |-> "result"],
     POSTGRES_DB |-> [from |-> "", value |-> "db"],
     POSTGRES_HOST |-> [from |-> "db/db", value |-> "address"],
     POSTGRES_PORT |-> [from |-> "db/db", value |-> "5432"]]

\* containerDefinitions: portMappings containerPort; LbTargetGroup port;
\* EcsService loadBalancer containerPort
ContainerPort == 80
TargetGroupPort == 80
ServiceContainerPort == 80

\* config.ts: the variables the backend reads, and its check of them
RequiredEnv ==
    {"POSTGRES_USER", "POSTGRES_HOST", "POSTGRES_PORT", "POSTGRES_PASSWORD",
     "POSTGRES_DB"}
ConfigThrows(env) ==
    \E key \in RequiredEnv : key \notin DOMAIN env \/ env[key] = ""

\* parseInt of the strings a port is given as
ParseInt(str) ==
    CASE str = "80" -> 80
      [] str = "4000" -> 4000
      [] str = "5432" -> 5432

\* index.ts: const port = parseInt(process.env.PORT || "4000")
ListenPort(env) ==
    ParseInt(IF "PORT" \in DOMAIN env /\ env["PORT"] # "" THEN env["PORT"] ELSE "4000")

\* LoadBalancer and LoadBalancer.exposeService
TargetGroupNoDependsOn == {}

TargetGroupDependsOnRule == {"lb/lb-listener", "lb/rule"}

\* dependsOn: [this.lbl]
TargetGroupDependsOn == {"lb/lb-listener"}

ListenerRuleRefs == {"lb/lb-listener", "lb/target-group"}

ServiceSubnets == "public"

LoadBalancer ==
    ("lb/lb-security-group" :> R({"vpc"}))
 @@ ("lb/lb" :> [R({"vpc", "lb/lb-security-group"})
                    EXCEPT !.subnets = "public",
                           !.securityGroups = {"lb/lb-security-group"}])
 @@ ("lb/lb-listener" :> R({"lb/lb"}))

exposeService(tag) ==
    ("lb/target-group" :> R(TargetGroupDependsOn \cup {"vpc"}))
 @@ ("lb/rule" :> R(ListenerRuleRefs))
 @@ ("lb/service" :>
        [R({"lb/lb-listener", "cluster/ecs", "cluster/task", "vpc",
            "service-security-group", "lb/target-group"})
            EXCEPT !.image = tag,
                   !.subnets = ServiceSubnets,
                   !.securityGroups = {"service-security-group"}])

\* PublicS3Bucket: bucket, website configuration, one S3Object per globbed
\* file with the id `${name}/${f}/${contentHash}`, bucket policy.
S3ObjectId(f, contentHash) == "example-staging/" \o f \o "/" \o contentHash

PublicS3Bucket(dir, db) ==
    LET files == glob(dir)
        contentHash == AssetHashFrontend(dir)
        ids == {S3ObjectId(f, contentHash) : f \in files}
        fileOf(id) == CHOOSE f \in files : S3ObjectId(f, contentHash) = id
    IN  ("s3/bucket" :> R({}))
     @@ ("s3/website-configuration" :> R({"s3/bucket"}))
     @@ ("s3/s3-policy" :> R({"s3/bucket"}))
     @@ [id \in ids |->
            [R({"s3/bucket"}) EXCEPT !.key = fileOf(id),
                                     !.content = dir[fileOf(id)],
                                     !.contentType = ContentType(fileOf(id), db)]]

\* CloudfrontDistribution: origins are bucket.websiteEndpoint and lb.dnsName
CloudfrontRefs == {"s3/bucket", "lb/lb"}

\* Construct ids in the scope of the load balancer after its constructor
LoadBalancerConstructs == {"lb-security-group", "lb", "lb-listener"}

\* priority of the LbListenerRule of exposeService
RulePriority == 100

\* Construct ids exposeService(name, …) adds: the class LoadBalancer uses
\* fixed ids, the function exposeService prefixes them with the name.
ExposeIds(v, name) ==
    IF v = "class" THEN {"target-group", "rule", "service"}
    ELSE {name \o "-target-group", name \o "-rule", name \o "-service"}

\* ------------------------------------------- security groups, roles, vpc
Internet == {"0.0.0.0/0", "::/0"}

\* fromPort: 0, toPort: 0, protocol: "-1", to every destination
AllTraffic ==
    [fromPort |-> 0, toPort |-> 0, protocol |-> "-1",
     securityGroups |-> {}, cidrBlocks |-> Internet]

\* lbSecurityGroup: HTTP from everywhere
LbSecurityGroupIngress ==
    {[fromPort |-> 80, toPort |-> 80, protocol |-> "TCP",
      securityGroups |-> {}, cidrBlocks |-> Internet]}

ServiceIngressFromAnywhere ==
    {[fromPort |-> 80, toPort |-> 80, protocol |-> "TCP",
      securityGroups |-> {}, cidrBlocks |-> Internet]}

\* serviceSecurityGroup: securityGroups: loadBalancer.lb.securityGroups
ServiceSecurityGroupIngress ==
    {[fromPort |-> 80, toPort |-> 80, protocol |-> "TCP",
      securityGroups |-> LoadBalancer["lb/lb"].securityGroups,
      cidrBlocks |-> {}]}

\* The security groups of the stack; egressDeclared: the group has an egress
\* block (the database group has none).
SecurityGroupIds ==
    {"lb/lb-security-group", "service-security-group", "db/db-security-group"}

SecurityGroup(a) ==
    CASE a = "lb/lb-security-group" ->
            [ingress |-> LbSecurityGroupIngress,
             egressDeclared |-> TRUE, egress |-> {AllTraffic}]
      [] a = "service-security-group" ->
            [ingress |-> ServiceSecurityGroupIngress,
             egressDeclared |-> TRUE, egress |-> {AllTraffic}]
      [] a = "db/db-security-group" ->
            [ingress |-> DbSecurityGroupIngress,
             egressDeclared |-> FALSE, egress |-> {}]

\* inlinePolicy of the execution role ("allow-ecr-pull") and of the task role
\* ("allow-logs"): the allowed actions, as <<service, action>>.
ExecutionRoleActions ==
    {<<"ecr", "GetAuthorizationToken">>, <<"ecr", "BatchCheckLayerAvailability">>,
     <<"ecr", "GetDownloadUrlForLayer">>, <<"ecr", "BatchGetImage">>,
     <<"logs", "CreateLogStream">>, <<"logs", "PutLogEvents">>}

TaskRoleSameAsExecution == ExecutionRoleActions

TaskRoleActions == {<<"logs", "CreateLogStream">>, <<"logs", "PutLogEvents">>}

\* executionRoleArn: executionRole.arn, taskRoleArn: taskRole.arn
ExecutionRoleArn == "cluster/execution-role"
TaskRoleArn == "cluster/task-role"

RoleActions(role) ==
    CASE role = "cluster/execution-role" -> ExecutionRoleActions
      [] role = "cluster/task-role" -> TaskRoleActions

\* Vpc: cidr and the subnets, as <<a, b, c, d, prefix length>>
VpcCidr == <<10, 0, 0, 0, 16>>
PrivateSubnets == << <<10, 0, 1, 0, 24>>, <<10, 0, 2, 0, 24>>, <<10, 0, 3, 0, 24>> >>
PublicSubnetsOverlapping ==
    << <<10, 0, 101, 0, 24>>, <<10, 0, 2, 0, 24>>, <<10, 0, 103, 0, 24>> >>
PublicSubnets ==
    << <<10, 0, 101, 0, 24>>, <<10, 0, 102, 0, 24>>, <<10, 0, 103, 0, 24>> >>
DatabaseSubnets ==
    << <<10, 0, 201, 0, 24>>, <<10, 0, 202, 0, 24>>, <<10, 0, 203, 0, 24>> >>
Azs == <<"us-east-1a", "us-east-1b", "us-east-1c">>

\* First and last address of a block
CidrFirst(c) == ((c[1] * 256 + c[2]) * 256 + c[3]) * 256 + c[4]
CidrLast(c) == CidrFirst(c) + 2 ^ (32 - c[5]) - 1

\* The segments of the vpc: one per class and zone
Segments ==
    {[class |-> "private", az |-> Azs[i], cidr |-> PrivateSubnets[i]] :
        i \in DOMAIN PrivateSubnets}
 \cup {[class |-> "public", az |-> Azs[i], cidr |-> PublicSubnets[i]] :
        i \in DOMAIN PublicSubnets}
 \cup {[class |-> "database", az |-> Azs[i], cidr |-> DatabaseSubnets[i]] :
        i \in DOMAIN DatabaseSubnets}

\* The subnets as the Vpc module is given them: 9 blocks of prefix length 24,
\* one per class and zone, inside the cidr of the vpc and pairwise disjoint
SegmentsDisjointWithinVpc ==
    /\ Cardinality(Segments) = 9
    /\ Cardinality({<<s.class, s.az>> : s \in Segments}) = 9
    /\ VpcCidr = <<10, 0, 0, 0, 16>>
    /\ \A s \in Segments :
            /\ s.cidr[5] = 24
            /\ CidrFirst(VpcCidr) <= CidrFirst(s.cidr)
            /\ CidrLast(s.cidr) <= CidrLast(VpcCidr)
    /\ \A s, t \in Segments :
            s # t => \/ CidrLast(s.cidr) < CidrFirst(t.cidr)
                     \/ CidrLast(t.cidr) < CidrFirst(s.cidr)

\* MyStack: the whole graph for a tree t = [backend, frontend]
MyStack(v, t) ==
    ("vpc" :> R({}))
 @@ Cluster
 @@ LoadBalancer
 @@ ("service-security-group" :> R({"vpc", "lb/lb"}))
 @@ PostgresDB
 @@ PushedECRImage(v, t.backend)
 @@ runDockerImage(Tag(v, t.backend), ImageId(v, Tag(v, t.backend)))
 @@ exposeService(Tag(v, t.backend))
 @@ PublicS3Bucket(t.frontend, mimeDb)
 @@ ("cf" :> R(CloudfrontRefs))

\* ------------------------------------------------------- the apply engine
NoResources == [a \in {} |-> R({})]

\* Resources that have no effect outside the state file, never change between
\* two deployments and are read by nothing but the walk itself.  The walk
\* realizes them together with the first step that needs them, or with the
\* last step of the apply; the possible orders of all other resources are
\* the ones of the full graph.
Silent ==
    {"cluster/ecs", "cluster/capacity-providers", "cluster/execution-role",
     "cluster/task-role", "cluster/loggroup", "db/db-password",
     "s3/website-configuration", "s3/s3-policy"}

\* The attributes terraform diffs; a provisioner is not one of them.
Diffed(r) == <<r.image, r.key, r.content>>

UpToDate(a) ==
    /\ a \in DOMAIN tfstate
    /\ a \in DOMAIN stack
    /\ Diffed(tfstate[a]) = Diffed(stack[a])

\* process.env of the container the registered task definition starts: a
\* reference holds the attribute of the applied resource.
ContainerEnv ==
    [name \in DOMAIN TaskEnvironment |->
        IF TaskEnvironment[name].from = ""
           \/ TaskEnvironment[name].from \in DOMAIN tfstate
        THEN TaskEnvironment[name].value ELSE ""]

\* The declared graph has an order: removing, again and again, the resources
\* that depend on none of the remaining ones leaves nothing.
RECURSIVE Unordered(_, _)
Unordered(g, as) ==
    LET free == {a \in as : g[a].deps \cap as = {}}
    IN  IF free = {} THEN as ELSE Unordered(g, as \ free)

RECURSIVE Ready(_)
Ready(a) ==
    \A d \in stack[a].deps :
        IF d \in Silent THEN d \in DOMAIN tfstate \/ Ready(d) ELSE UpToDate(d)

RECURSIVE SilentNeeds(_)
SilentNeeds(a) ==
    LET ds == (stack[a].deps \cap Silent) \ DOMAIN tfstate
    IN  ds \cup UNION {SilentNeeds(d) : d \in ds}

Realize(as) ==
    [x \in DOMAIN tfstate \cup as |->
        IF x \in DOMAIN tfstate THEN tfstate[x] ELSE stack[x]]

NoEffects == [built |-> {}, uploaded |-> {}, deleted |-> {}]

\* The local-exec command: docker login && docker build && docker push.
\* With && a step runs only if the one before it exited with 0.
Chain == <<"login", "build", "push">>
StepsRunAll(k) == Chain
StepsRun(k) == SubSeq(Chain, 1, k)
NoRun == [steps |-> <<>>, exit |-> "none", attempts |-> 0]

\* docker login && docker build -t tag . && docker push tag
BuildAndPush(r) ==
    IF r.provisioner = NoImage
    THEN /\ registry' = registry
         /\ effects' = effects
         /\ ran' = ran
    ELSE /\ registry' = (r.provisioner :> synth.backend) @@ registry
         /\ effects' = [effects EXCEPT !.built = @ \cup {r.provisioner}]
         /\ ran' = [steps |-> StepsRun(Len(Chain)), exit |-> "ok",
                    attempts |-> ran.attempts + 1]

\* aws_s3_object create: PutObject(key, source)
PutObject(r) ==
    /\ bucket' = (r.key :> r.content) @@ bucket
    /\ effects' = [effects EXCEPT !.uploaded = @ \cup {r.key}]

\* aws_s3_object destroy: DeleteObject(key)
DeleteObject(r) ==
    /\ bucket' = [k \in DOMAIN bucket \ {r.key} |-> bucket[k]]
    /\ effects' = [effects EXCEPT !.deleted = @ \cup {r.key}]

Init ==
    /\ variant \in {"class", "function"}
    /\ backend = [version |-> Versions[1], src |-> 1]
    /\ frontend = [f \in BuildFiles |-> 1]
    /\ synth = NoTree
    /\ stack = NoResources
    /\ prev = NoTree
    /\ pc = "idle"
    /\ deploys = 0
    /\ edits = 0
    /\ tfstate = NoResources
    /\ registry = [t \in {} |-> NoTree.backend]
    /\ bucket = [k \in {} |-> 0]
    /\ taskImage = NoImage
    /\ effects = NoEffects
    /\ failed = {}
    /\ ran = NoRun
    /\ request = <<>>
    /\ origin = NoOrigin
    /\ target = NoOrigin
    /\ calls = <<>>
    /\ constructs = LoadBalancerConstructs
    /\ rules = <<>>
    /\ listing = [f \in {} |-> 0]
    /\ mimeDb = MimeDb
    /\ objects = NoResources
    /\ server = [pc |-> "loading", migration |-> "none", starts |-> 0]
    /\ reqs = [r \in Requests |-> NoRequest]
    /\ ui = [modal |-> "closed", posts |-> {}, timers |-> 0, opens |-> 0,
             submitted |-> 0]
    /\ net = [posting |-> {}, gets |-> {Get(0)}, issued |-> 1, db |-> {}]

\* The developer changes the backend sources, the declared version or a file
\* of the frontend build between two deployments (the first deployment is
\* the one of the checkout).
EditBackend(c) ==
    /\ pc = "idle"
    /\ deploys \in 1..(MaxDeploys - 1)
    /\ edits < MaxEdits
    /\ edits' = edits + 1
    /\ c # backend.src
    /\ backend' = [backend EXCEPT !.src = c]
    /\ UNCHANGED <<variant, frontend, synth, stack, prev, pc, deploys, tfstate,
                   registry, bucket, taskImage, effects, failed, ran>>
    /\ UNCHANGED auxVars

BumpVersion(v) ==
    /\ pc = "idle"
    /\ deploys \in 1..(MaxDeploys - 1)
    /\ edits < MaxEdits
    /\ edits' = edits + 1
    /\ v # backend.version
    /\ backend' = [backend EXCEPT !.version = v]
    /\ UNCHANGED <<variant, frontend, synth, stack, prev, pc, deploys, tfstate,
                   registry, bucket, taskImage, effects, failed, ran>>
    /\ UNCHANGED auxVars

EditFrontend(f, c) ==
    /\ pc = "idle"
    /\ deploys \in 1..(MaxDeploys - 1)
    /\ edits < MaxEdits
    /\ edits' = edits + 1
    /\ c # frontend[f]
    /\ frontend' = [frontend EXCEPT ![f] = c]
    /\ UNCHANGED <<variant, backend, synth, stack, prev, pc, deploys, tfstate,
                   registry, bucket, taskImage, effects, failed, ran>>
    /\ UNCHANGED auxVars

\* cdktf deploy: synth (app.synth()) and the start of terraform apply
Deploy ==
    /\ pc = "idle"
    /\ deploys < MaxDeploys
    /\ synth' = [backend |-> backend, frontend |-> frontend]
    /\ stack' = MyStack(variant, synth')
    /\ prev' = synth
    /\ pc' = "apply"
    /\ deploys' = deploys + 1
    /\ effects' = NoEffects
    /\ failed' = {}
    /\ ran' = NoRun
    /\ UNCHANGED <<variant, backend, frontend, edits, tfstate, registry,
                   bucket, taskImage>>
    /\ UNCHANGED auxVars

\* A resource to create: declared, not in the state, not failed in this apply,
\* and everything it depends on is in place.
Creatable(a) ==
    /\ a \in (DOMAIN stack \ Silent) \ DOMAIN tfstate
    /\ a \notin failed
    /\ Ready(a)

Create(a) ==
    /\ pc = "apply"
    /\ Creatable(a)
    /\ tfstate' = Realize({a} \cup SilentNeeds(a))
    /\ IF stack[a].key # ""
       THEN PutObject(stack[a]) /\ registry' = registry /\ ran' = ran
       ELSE BuildAndPush(stack[a]) /\ bucket' = bucket
    /\ taskImage' = IF a = "cluster/task" THEN stack[a].image ELSE taskImage
    /\ UNCHANGED <<variant, backend, frontend, synth, stack, prev, pc, deploys, edits,
                   failed>>
    /\ UNCHANGED auxVars

\* A changed container definition registers a new task definition revision;
\* the service then moves to it.
Update(a) ==
    /\ pc = "apply"
    /\ a \in DOMAIN stack \cap DOMAIN tfstate
    /\ ~UpToDate(a)
    /\ Ready(a)
    /\ tfstate' = [tfstate EXCEPT ![a] = stack[a]]
    /\ taskImage' = IF a = "cluster/task" THEN stack[a].image ELSE taskImage
    /\ UNCHANGED <<variant, backend, frontend, synth, stack, prev, pc, deploys, edits,
                   registry, bucket, effects, failed, ran>>
    /\ UNCHANGED auxVars

\* A resource that is no longer declared is destroyed once nothing in the
\* state depends on it any more.
Destroy(a) ==
    /\ pc = "apply"
    /\ a \in DOMAIN tfstate \ DOMAIN stack
    /\ \A q \in DOMAIN tfstate : a \notin tfstate[q].deps
    /\ tfstate' = [x \in DOMAIN tfstate \ {a} |-> tfstate[x]]
    /\ IF tfstate[a].key # ""
       THEN DeleteObject(tfstate[a])
       ELSE bucket' = bucket /\ effects' = effects
    /\ UNCHANGED <<variant, backend, frontend, synth, stack, prev, pc, deploys, edits,
                   registry, taskImage, failed, ran>>
    /\ UNCHANGED auxVars

Converged ==
    /\ DOMAIN tfstate \subseteq DOMAIN stack
    /\ \A a \in DOMAIN stack \ Silent : UpToDate(a)

\* Nothing is left to do: terraform apply returns.
ApplyDone ==
    /\ pc = "apply"
    /\ Converged
    /\ tfstate' = Realize(DOMAIN stack)
    /\ pc' = "idle"
    /\ UNCHANGED <<variant, backend, frontend, synth, stack, prev, deploys, edits,
                   registry, bucket, taskImage, effects, failed, ran>>
    /\ UNCHANGED auxVars

Next ==
    \/ \E c \in Contents : EditBackend(c)
    \/ \E i \in DOMAIN Versions : BumpVersion(Versions[i])
    \/ \E f \in BuildFiles, c \in Contents : EditFrontend(f, c)
    \/ Deploy
    \/ \E a \in DOMAIN stack : Create(a)
    \/ \E a \in DOMAIN stack : Update(a)
    \/ \E a \in DOMAIN tfstate : Destroy(a)
    \/ ApplyDone

Spec == Init /\ [][Next]_vars

\* ------------------------------------------------- a failing provisioner
\* Step k of the command exits with an error: the command stops there, the
\* creation of the resource fails (terraform taints it, and replaces it in
\* the next apply), nothing was pushed.
ProvisionFails(a, k) ==
    /\ pc = "apply"
    /\ Creatable(a)
    /\ stack[a].provisioner # NoImage
    /\ failed' = failed \cup {a}
    /\ ran' = [steps |-> StepsRun(k), exit |-> Chain[k],
               attempts |-> ran.attempts + 1]
    /\ UNCHANGED <<variant, backend, frontend, synth, stack, prev, pc, deploys,
                   edits, tfstate, registry, bucket, taskImage, effects>>
    /\ UNCHANGED auxVars

\* terraform apply goes on with what does not depend on the failed resource
\* and then returns the error.
ApplyFailed ==
    /\ pc = "apply"
    /\ failed # {}
    /\ \A a \in DOMAIN stack : ~Creatable(a)
    /\ \A a \in DOMAIN stack \cap DOMAIN tfstate : UpToDate(a) \/ ~Ready(a)
    /\ \A a \in DOMAIN tfstate \ DOMAIN stack :
            \E q \in DOMAIN tfstate : a \in tfstate[q].deps
    /\ tfstate' = Realize(Silent \cap DOMAIN stack)
    /\ pc' = "idle"
    /\ UNCHANGED <<variant, backend, frontend, synth, stack, prev, deploys, edits,
                   registry, bucket, taskImage, effects, failed, ran>>
    /\ UNCHANGED auxVars

FailureNext ==
    \/ Next
    \/ \E a \in DOMAIN stack, k \in DOMAIN Chain : ProvisionFails(a, k)
    \/ ApplyFailed

FailureSpec == Init /\ [][FailureNext]_vars

\* ------------------------------------------------------ the backend process
\* index.ts: the handlers. "/" answers at once; the others await
\* dbMigrationDone and, but for /ready, then run one query.
Routes == {"GET /", "GET /ready", "GET /backend/posts",
           "GET /backend/posts/:id/detail", "POST /backend/posts"}

\* Only GET /backend/posts wraps its awaits in try/catch.
Catches(route) == route = "GET /backend/posts"

SuccessStatus(route) == IF route = "POST /backend/posts" THEN "201" ELSE "200"

\* A promise that is awaited lets the handler go on once it is settled.
SettledOrNot == TRUE
Settled == server.migration \in {"done", "failed"}

\* Loading the modules: db/migration runs `export const dbMigrationDone =
\* setupDb()`, then index.ts calls app.listen.
StartProcess ==
    /\ server.pc = "loading"
    /\ server' = [pc |-> "listening", migration |-> "pending",
                  starts |-> server.starts + 1]
    /\ UNCHANGED <<reqs, deployVars, routeVars, exposeVars, publishVars, frontendVars>>

\* migrate(...) resolves or rejects
MigrationSettles(outcome) ==
    /\ server.migration = "pending"
    /\ server' = [server EXCEPT !.migration = outcome]
    /\ UNCHANGED <<reqs, deployVars, routeVars, exposeVars, publishVars, frontendVars>>

\* A request arrives and its handler runs up to its first await.
Arrive(r, route) ==
    /\ server.pc = "listening"
    /\ reqs[r].pc = "none"
    /\ reqs' = [reqs EXCEPT ![r] =
                    IF route = "GET /"
                    THEN [route |-> route, pc |-> "responded",
                          status |-> "200", queried |-> FALSE]
                    ELSE [route |-> route, pc |-> "await",
                          status |-> "", queried |-> FALSE]]
    /\ UNCHANGED <<server, deployVars, routeVars, exposeVars, publishVars,
                   frontendVars>>

\* An exception in the handler: caught and answered with 500, or the
\* handler's promise rejects and nothing is sent.
Throw(q) ==
    IF Catches(q.route)
    THEN [q EXCEPT !.pc = "responded", !.status = "500"]
    ELSE [q EXCEPT !.pc = "thrown"]

\* `await dbMigrationDone` returns or throws.
Resume(r) ==
    /\ reqs[r].pc = "await"
    /\ Settled
    /\ reqs' = [reqs EXCEPT ![r] =
                    IF server.migration = "failed" THEN Throw(reqs[r])
                    ELSE IF reqs[r].route = "GET /ready"
                         THEN [reqs[r] EXCEPT !.pc = "responded", !.status = "200"]
                         ELSE [reqs[r] EXCEPT !.pc = "query", !.queried = TRUE]]
    /\ UNCHANGED <<server, deployVars, routeVars, exposeVars, publishVars,
                   frontendVars>>

\* `await db.query(...)` returns or throws.
QueryResolves(r) ==
    /\ reqs[r].pc = "query"
    /\ reqs' = [reqs EXCEPT ![r] =
                    [reqs[r] EXCEPT !.pc = "responded",
                                    !.status = SuccessStatus(reqs[r].route)]]
    /\ UNCHANGED <<server, deployVars, routeVars, exposeVars, publishVars,
                   frontendVars>>

QueryRejects(r) ==
    /\ reqs[r].pc = "query"
    /\ reqs' = [reqs EXCEPT ![r] = Throw(reqs[r])]
    /\ UNCHANGED <<server, deployVars, routeVars, exposeVars, publishVars,
                   frontendVars>>

BackendNext ==
    \/ StartProcess
    \/ \E outcome \in {"done", "failed"} : MigrationSettles(outcome)
    \/ \E r \in Requests, route \in Routes : Arrive(r, route)
    \/ \E r \in Requests : Resume(r)
    \/ \E r \in Requests : QueryResolves(r)
    \/ \E r \in Requests : QueryRejects(r)

\* Every promise settles and every continuation runs.
BackendSpec ==
    /\ Init
    /\ [][BackendNext]_vars
    /\ WF_vars(StartProcess)
    /\ WF_vars(\E outcome \in {"done", "failed"} : MigrationSettles(outcome))
    /\ \A r \in Requests :
            /\ WF_vars(Resume(r))
            /\ WF_vars(QueryResolves(r) \/ QueryRejects(r))

\* ------------------------------------------------------------ the frontend
FrontendOthers ==
    <<deployVars, routeVars, exposeVars, publishVars, backendVars>>

\* usePosts.triggerRefetch: fetch the posts; setPosts when the response comes
TriggerRefetch(n) ==
    [n EXCEPT !.gets = @ \cup {Get(n.issued)}, !.issued = @ + 1]

\* App.openPostModal
OpenModal ==
    /\ ui.modal = "closed"
    /\ ui.opens < MaxOpens
    /\ ui' = [ui EXCEPT !.modal = "open", !.opens = @ + 1]
    /\ UNCHANGED <<net, FrontendOthers>>

\* App.closeModal: setTimeout(triggerRefetch, 500); setModalOpen(false)
closeModal(u) == [u EXCEPT !.timers = @ + 1, !.modal = "closed"]

\* The modal's onRequestClose
RequestClose ==
    /\ ui.modal = "open"
    /\ ui' = closeModal(ui)
    /\ UNCHANGED <<net, FrontendOthers>>

\* CreatePostModal.submit: closeModal(), then createPost sends the POST and
\* does not wait for it
submit ==
    /\ ui.modal = "open"
    /\ ui' = [closeModal(ui) EXCEPT !.submitted = @ + 1]
    /\ net' = [net EXCEPT !.posting = @ \cup {ui.submitted + 1}]
    /\ UNCHANGED FrontendOthers

\* The timeout of closeModal expires
TimerFires ==
    /\ ui.timers > 0
    /\ ui' = [ui EXCEPT !.timers = @ - 1]
    /\ net' = TriggerRefetch(net)
    /\ UNCHANGED FrontendOthers

\* The backend handles a POST: the row is inserted
ServePost(k) ==
    /\ k \in net.posting
    /\ net' = [net EXCEPT !.posting = @ \ {k}, !.db = @ \cup {k}]
    /\ UNCHANGED <<ui, FrontendOthers>>

\* The backend handles a GET: the rows as they are then
ServeGet(g) ==
    /\ g \in net.gets
    /\ g.stage = "sent"
    /\ net' = [net EXCEPT !.gets = (@ \ {g}) \cup
                    {[g EXCEPT !.stage = "answered", !.rows = net.db]}]
    /\ UNCHANGED <<ui, FrontendOthers>>

\* The response of a GET arrives: setPosts(rows)
GetResponse(g) ==
    /\ g \in net.gets
    /\ g.stage = "answered"
    /\ ui' = [ui EXCEPT !.posts = g.rows]
    /\ net' = [net EXCEPT !.gets = @ \ {g}]
    /\ UNCHANGED FrontendOthers

FrontendNext ==
    \/ OpenModal
    \/ RequestClose
    \/ submit
    \/ TimerFires
    \/ \E k \in net.posting : ServePost(k)
    \/ \E g \in net.gets : ServeGet(g)
    \/ \E g \in net.gets : GetResponse(g)

FrontendSpec == Init /\ [][FrontendNext]_vars

\* ------------------------------------------------------ request routing
S3_ORIGIN_ID == "s3Origin"
BACKEND_ORIGIN_ID == "backendOrigin"

\* A path is a sequence of tokens: "/backends" is <<"/", "backend", "s">>.
\* In a pattern "*" stands for any run of characters.
PathTokens == {"/", "backend", "s", "posts", "index.html"}
Paths ==
    {p \in UNION {[1..n -> PathTokens] : n \in 1..MaxPathLen} : p[1] = "/"}

RECURSIVE Matches(_, _)
Matches(pattern, p) ==
    IF pattern = <<>> THEN p = <<>>
    ELSE IF Head(pattern) = "*"
         THEN Matches(Tail(pattern), p)
                \/ (p # <<>> /\ Matches(pattern, Tail(p)))
         ELSE p # <<>> /\ Head(p) = Head(pattern)
                /\ Matches(Tail(pattern), Tail(p))

\* CloudfrontDistribution "cf": orderedCacheBehavior in its order, then
\* defaultCacheBehavior, whose pattern is "*"
NoDefaultCacheBehavior == <<>>

DefaultCacheBehavior ==
    <<[pathPattern |-> <<"*">>, targetOriginId |-> S3_ORIGIN_ID]>>

BackendBehaviorAtS3 ==
    <<[pathPattern |-> <<"/", "backend", "/", "*">>,
       targetOriginId |-> S3_ORIGIN_ID]>>

OrderedCacheBehavior ==
    <<[pathPattern |-> <<"/", "backend", "/", "*">>,
       targetOriginId |-> BACKEND_ORIGIN_ID]>>

CacheBehaviors == OrderedCacheBehavior \o DefaultCacheBehavior

\* origin: what serves each origin id
Origins ==
    (S3_ORIGIN_ID :> "s3/bucket") @@ (BACKEND_ORIGIN_ID :> "lb/lb")

\* The behaviours that apply to a path, and the ones among them that no
\* other precedes: the distribution uses the first that matches.
Applicable(p) ==
    {i \in DOMAIN CacheBehaviors : Matches(CacheBehaviors[i].pathPattern, p)}
Winners(p) == {i \in Applicable(p) : \A j \in Applicable(p) : i <= j}

CloudfrontOrigin(p) ==
    IF Winners(p) = {} THEN NoOrigin
    ELSE CacheBehaviors[CHOOSE i \in Winners(p) : TRUE].targetOriginId

\* LbListener "lb-listener": the rule of exposeService(…, "/backend")
\* forwards `${path}*` to the target group, everything else is the fixed 404.
ListenerRuleForApi == <<"/", "api", "*">>

ListenerRulePattern == <<"/", "backend", "*">>

\* index.ts: app.use("/backend", applicationRouter): the router gets the
\* paths that are the mount path or continue it after a "/"
MountPath == <<"/", "backend">>
UnderMount(p) ==
    /\ Len(p) >= Len(MountPath)
    /\ SubSeq(p, 1, Len(MountPath)) = MountPath
    /\ Len(p) > Len(MountPath) => p[Len(MountPath) + 1] = "/"
ListenerTarget(p) ==
    IF Matches(ListenerRulePattern, p) THEN "lb/service" ELSE "fixed-response-404"

\* One request to the distribution
Request(p) ==
    /\ request' = p
    /\ origin' = CloudfrontOrigin(p)
    /\ target' = IF origin' = NoOrigin THEN NoOrigin
                 ELSE IF Origins[origin'] = "lb/lb" THEN ListenerTarget(p)
                 ELSE Origins[origin']
    /\ UNCHANGED <<deployVars, exposeVars, publishVars, backendVars, frontendVars>>

RoutingNext == \E p \in Paths : Request(p)

RoutingSpec == Init /\ [][RoutingNext]_vars

\* ---------------------------------------------- exposing several services
ServiceNames == {"backend", "api", "web"}
ServicePaths == {"/backend", "/api", "/web"}

\* A construct whose id is already taken in its scope makes the constructor
\* throw: synth stops there.
Thrown == Len(rules) < Len(calls)

\* exposeService(name, task, serviceSecurityGroup, path): target group, then
\* listener rule, then service
ExposeService(name, path) ==
    /\ ~Thrown
    /\ Len(calls) < MaxCalls
    /\ calls' = Append(calls, name)
    /\ IF ExposeIds(variant, name) \cap constructs # {}
       THEN UNCHANGED <<constructs, rules>>
       ELSE /\ constructs' = constructs \cup ExposeIds(variant, name)
            /\ rules' = Append(rules, [name |-> name,
                                       priority |-> RulePriority,
                                       pathPattern |-> path \o "*"])
    /\ UNCHANGED <<deployVars, routeVars, publishVars, backendVars, frontendVars>>

ExposeNext == \E name \in ServiceNames, path \in ServicePaths : ExposeService(name, path)

ExposeSpec == Init /\ [][ExposeNext]_vars

\* ------------------------------------------------- publishing a bundle
\* Build directories: any set of the files, each with some bytes
Listings == UNION {[S -> {1}] : S \in SUBSET PublishFiles}

\* new PublicS3Bucket(this, name, absoluteContentPath) on a build directory,
\* with some version of mime-db installed: the S3Objects it declares
Publish(dir, db) ==
    /\ listing' = dir
    /\ mimeDb' = db
    /\ objects' = LET b == PublicS3Bucket(dir, db)
                      ids == {a \in DOMAIN b : b[a].key # ""}
                  IN  [a \in ids |-> b[a]]
    /\ UNCHANGED <<deployVars, routeVars, exposeVars, backendVars, frontendVars>>

PublishNext == \E dir \in Listings, db \in MimeDbs : Publish(dir, db)

PublishSpec == Init /\ [][PublishNext]_vars

\* ------------------------------------------------------------ properties
Realized(a) == a \in DOMAIN tfstate

Redeployed == deploys >= 2

\* C1: the task definition is realized only against an image whose
\* build-and-push has completed: the image of the registered task definition
\* is always a tag that was pushed to the registry.
C1_PlacementAfterPublish ==
    taskImage # NoImage => taskImage \in DOMAIN registry

\* C2: when the build context changed between two deployments, the second
\* deployment has run the build-and-push for the new reference by the time the
\* task definition references it, and every tag in the registry still holds
\* the image built from the context it was first pushed for.
C2_NewFingerprintNewArtifact ==
    /\ (Redeployed /\ synth.backend # prev.backend
            /\ UpToDate("cluster/task"))
        => stack["cluster/task"].image \in effects.built
    /\ \A t \in DOMAIN registry : Tag(variant, registry[t]) = t

\* C3: a deployment whose build context and declared version are those of the
\* deployment before it runs no build and no push, and declares the reference
\* that the task definition already has.
C3_RepublishUnchangedIsNoop ==
    (Redeployed /\ synth.backend = prev.backend)
        => /\ effects.built = {}
           /\ \A a \in DOMAIN stack :
                stack[a].provisioner # NoImage => Realized(a)
           /\ Realized("cluster/task")
           /\ stack["cluster/task"].image = tfstate["cluster/task"].image

C3_Witness ==
    Redeployed /\ synth.backend = prev.backend /\ pc = "idle"

\* C4: the reference that the provisioner builds and pushes, and that the
\* task definition runs, is registry-url ":" declared version "-" fingerprint.
C4_ReferenceFormat ==
    \A a \in DOMAIN stack :
        LET ref == RepositoryUrl(variant) \o ":" \o synth.backend.version
                        \o "-" \o AssetHashBackend(synth.backend)
        IN  /\ stack[a].provisioner # NoImage => stack[a].provisioner = ref
            /\ stack[a].image # NoImage => stack[a].image = ref

C4_Witness ==
    \E t \in DOMAIN registry :
        /\ taskImage = t
        /\ registry[t].version = Versions[2]

\* C5: between two deployments, changed content under the same declared
\* version changes the reference, and a changed declared version with the
\* same sources changes it too.
C5_ReferenceChanges ==
    Redeployed =>
        LET old == Tag(variant, prev.backend)
            new == stack["cluster/task"].image
        IN  /\ (synth.backend.version = prev.backend.version
                    /\ synth.backend.src # prev.backend.src) => new # old
            /\ (synth.backend.version # prev.backend.version
                    /\ synth.backend.src = prev.backend.src) => new # old

C5_Witness ==
    /\ Redeployed
    /\ synth.backend.version = prev.backend.version
    /\ synth.backend.src # prev.backend.src
    /\ UpToDate("cluster/task")

\* C7: once the CDN distribution is realized, every file of the bundle is in
\* the bucket with its current content.
C7_BundleBeforeRoute ==
    Realized("cf") =>
        \A f \in glob(synth.frontend) :
            f \in DOMAIN bucket /\ bucket[f] = synth.frontend[f]

\* C8: in a re-publish of a bundle of which some file changed, a file whose
\* content did not change is neither deleted nor uploaded.
C8_UnchangedFilesSkipped ==
    (Redeployed /\ synth.frontend # prev.frontend)
        => \A f \in glob(synth.frontend) :
                synth.frontend[f] = prev.frontend[f]
                    => f \notin effects.uploaded \cup effects.deleted

\* C9 as claimed: listener before listener rule, listener rule before target
\* group.
C9_ListenerRuleTargetGroup ==
    /\ Realized("lb/rule") => Realized("lb/lb-listener")
    /\ Realized("lb/target-group") => Realized("lb/rule")

\* C9 as amended: listener before target group, target group and listener
\* before listener rule.
C9_ListenerTargetGroupRule ==
    /\ Realized("lb/target-group") => Realized("lb/lb-listener")
    /\ Realized("lb/rule") =>
            Realized("lb/target-group") /\ Realized("lb/lb-listener")

C9_Witness ==
    /\ Realized("lb/lb-listener")
    /\ Realized("lb/target-group")
    /\ ~Realized("lb/rule")

\* C10: the database security group admits only TCP on the database port
\* from the service security group, and nothing that is a member of a group
\* it admits is placed in a public segment.
C10_DataTierNotFromPublic ==
    /\ \A rule \in DbSecurityGroupIngress :
            /\ rule.protocol = "TCP"
            /\ rule.fromPort = DbPort /\ rule.toPort = DbPort
            /\ rule.securityGroups = {"service-security-group"}
            /\ rule.cidrBlocks = {}
    /\ \A a \in DOMAIN tfstate :
            (\E rule \in DbSecurityGroupIngress :
                    tfstate[a].securityGroups \cap rule.securityGroups # {})
                => tfstate[a].subnets # "public"

\* C11: every realized security group carries an explicit egress policy.
C11_ExplicitEgress ==
    \A a \in DOMAIN tfstate \cap SecurityGroupIds :
        SecurityGroup(a).egressDeclared

\* C12: internet -> load balancer on TCP 80, load balancer -> service on TCP
\* 80 and service -> database on TCP 5432 are each exactly one ingress rule of
\* the destination group; the source of the last two is the neighbouring
\* tier's group itself (realized before the group that names it), and there
\* is no other ingress rule.
C12_OneIngressPerEdge ==
    LET rule(port, groups, cidrs) ==
            [fromPort |-> port, toPort |-> port, protocol |-> "TCP",
             securityGroups |-> groups, cidrBlocks |-> cidrs]
        expected(a) ==
            CASE a = "lb/lb-security-group" -> {rule(80, {}, Internet)}
              [] a = "service-security-group" ->
                    {rule(80, {"lb/lb-security-group"}, {})}
              [] a = "db/db-security-group" ->
                    {rule(5432, {"service-security-group"}, {})}
    IN  \A a \in DOMAIN tfstate \cap SecurityGroupIds :
            /\ SecurityGroup(a).ingress = expected(a)
            /\ Cardinality(SecurityGroup(a).ingress) = 1
            /\ \A r \in SecurityGroup(a).ingress :
                    \A g \in r.securityGroups : g # a /\ Realized(g)

C12_Witness == SecurityGroupIds \subseteq DOMAIN tfstate

\* C13: the task definition names two distinct roles; the execution role may
\* pull the image and write logs, the task role may only write logs and has
\* no registry action.
C13_RuntimeRoleCannotPull ==
    Realized("cluster/task") =>
        /\ ExecutionRoleArn # TaskRoleArn
        /\ Realized(ExecutionRoleArn) /\ Realized(TaskRoleArn)
        /\ {<<"ecr", "BatchGetImage">>, <<"ecr", "GetDownloadUrlForLayer">>,
            <<"logs", "PutLogEvents">>} \subseteq RoleActions(ExecutionRoleArn)
        /\ \A act \in RoleActions(TaskRoleArn) :
                act[1] = "logs" /\ act[1] # "ecr"
        /\ RoleActions(TaskRoleArn) # {}

C13_Witness == Realized("cluster/task")

\* C18: the vpc has 9 /24 segments (3 zones times public, private, database)
\* that are pairwise disjoint and lie within 10.0.0.0/16.
C18_SegmentsDisjointWithinVpc ==
    Realized("vpc") => SegmentsDisjointWithinVpc

C18_Witness == Realized("vpc") /\ Realized("db/db")

\* C14: a request whose path is under "/backend/" is routed to the backend
\* origin (the load balancer, and there to the service); every other path is
\* routed to the bucket origin.
C14_BackendPrefixToBackend ==
    request # <<>> =>
        IF Len(request) >= 3 /\ request[2] = "backend" /\ request[3] = "/"
        THEN /\ origin = BACKEND_ORIGIN_ID
             /\ Origins[origin] = "lb/lb"
             /\ target = "lb/service"
        ELSE /\ origin = S3_ORIGIN_ID
             /\ target = "s3/bucket"

C14_Witness ==
    /\ request = <<"/", "backend", "/", "posts">>
    /\ target = "lb/service"

\* C15: there is exactly one default route, and for every request path
\* exactly one route wins.
C15_ExactlyOneRouteWins ==
    /\ Cardinality({i \in DOMAIN CacheBehaviors :
                        CacheBehaviors[i].pathPattern = <<"*">>}) = 1
    /\ request # <<>> =>
        /\ Cardinality(Winners(request)) = 1
        /\ origin \in DOMAIN Origins
        /\ \A i \in Winners(request) : origin = CacheBehaviors[i].targetOriginId

C15_Witness ==
    /\ request = <<"/", "backend", "s">>
    /\ Cardinality(Applicable(request)) = 1
    /\ origin = S3_ORIGIN_ID

\* C17: when exposeService was called for two or more distinct services on
\* the load balancer, every call succeeded and the priorities of the listener
\* rules are pairwise distinct.
C17_DistinctPriorities ==
    (/\ Len(calls) >= 2
     /\ \A i, j \in DOMAIN calls : i # j => calls[i] # calls[j])
    => /\ ~Thrown
       /\ \A i, j \in DOMAIN rules :
            i # j => rules[i].priority # rules[j].priority

\* C19: a file of the build directory is uploaded if and only if its
\* extension is one of json, js, html, png, ico, txt, map, css, and each
\* uploaded file yields exactly one bucket object, keyed by its relative path.
C19_UploadedIffAllowedExtension ==
    \A f \in DOMAIN listing :
        LET of == {a \in DOMAIN objects : objects[a].key = f}
        IN  /\ (of # {}) <=> (ExtName(f) \in GlobExtensions)
            /\ of # {} => Cardinality(of) = 1

\* C20: publishing declares an object for every globbed file whatever the
\* lookup of its content type returns: the object has the type mime-db maps
\* its extension to, or "text/html" when mime-db has no entry for it.
C20_ContentTypeOrFallback ==
    /\ \A f \in glob(listing) : \E a \in DOMAIN objects : objects[a].key = f
    /\ \A a \in DOMAIN objects :
        LET ext == ExtName(objects[a].key)
        IN  /\ objects[a].contentType # NoType
            /\ ext \in mimeDb => objects[a].contentType = MimeType(ext)
            /\ ext \notin mimeDb => objects[a].contentType = "text/html"

C20_Witness ==
    \E a, b \in DOMAIN objects :
        /\ ExtName(objects[a].key) \notin mimeDb
        /\ objects[a].contentType = "text/html"
        /\ objects[b].contentType = "application/javascript"

\* C21: when a step of docker login && docker build && docker push fails, no
\* later step runs and nothing is pushed, the image resource is failed and
\* its provisioner is not run again in that apply, and the task definition,
\* which depends on the image, is not realized with it.
C21_FailedPublishStopsDependents ==
    /\ ran.attempts <= 1
    /\ \A a \in failed :
        /\ ran.exit # "ok"
        /\ ran.steps # <<>> /\ ran.steps[Len(ran.steps)] = ran.exit
        /\ ran.steps = SubSeq(Chain, 1, Len(ran.steps))
        /\ stack[a].provisioner \notin effects.built
        /\ a \notin DOMAIN tfstate
        /\ \A q \in DOMAIN stack : a \in stack[q].deps => ~UpToDate(q)
        /\ stack["cluster/task"].image = stack[a].provisioner
                => taskImage # stack[a].provisioner

C21_Witness ==
    /\ failed # {}
    /\ pc = "idle"
    /\ ran.exit = "login"
    /\ Realized("s3/bucket")
    /\ ~Realized("cluster/task")

\* C22: the graph MyStack declares (dependsOn edges and references) names
\* only declared resources and has no cycle.
C22_GraphAcyclic ==
    /\ \A a \in DOMAIN stack : stack[a].deps \subseteq DOMAIN stack
    /\ Unordered(stack, DOMAIN stack) = {}

C22_Witness ==
    /\ deploys >= 2
    /\ pc = "apply"
    /\ DOMAIN stack # DOMAIN tfstate
    /\ "cf" \in DOMAIN stack

\* C23: the environment of the registered task definition has every variable
\* the backend's config.ts requires, each non-empty, so its check never throws.
C23_RequiredEnvBound ==
    Realized("cluster/task") =>
        /\ RequiredEnv \subseteq DOMAIN ContainerEnv
        /\ \A key \in RequiredEnv : ContainerEnv[key] # ""
        /\ ~ConfigThrows(ContainerEnv)

C23_Witness == Realized("cluster/task") /\ Realized("lb/service")

\* C24: in every order of the apply, the service is created only after the
\* listener rule that attaches its target group to the load balancer.
C24_ServiceAfterListenerRule ==
    Realized("lb/service") => Realized("lb/rule")

\* C25: when an apply that republished changed bundle files has returned, the
\* bucket has an object for every key of the new bundle.
C25_BucketHasNewBundle ==
    (pc = "idle" /\ deploys >= 1) =>
        \A f \in glob(synth.frontend) :
            f \in DOMAIN bucket /\ bucket[f] = synth.frontend[f]

\* C29: the port the backend listens on (PORT, else 4000) is the container
\* port of the task definition, the port of the target group and of the
\* service's registration, and the port the service group admits.
C29_PortConsistent ==
    Realized("lb/service") =>
        /\ ListenPort(ContainerEnv) = ContainerPort
        /\ ContainerPort = TargetGroupPort
        /\ ContainerPort = ServiceContainerPort
        /\ \A r \in ServiceSecurityGroupIngress :
                r.fromPort = ContainerPort /\ r.toPort = ContainerPort

C29_Witness == Realized("lb/service") /\ Realized("service-security-group")

\* C26: every path the distribution forwards to the load balancer matches the
\* listener rule of exposeService(…, "/backend"), so it is not answered by
\* the listener's fixed 404, and lies under the router's mount "/backend".
C26_PathLayersAgree ==
    origin = BACKEND_ORIGIN_ID =>
        /\ Matches(ListenerRulePattern, request)
        /\ target # "fixed-response-404"
        /\ UnderMount(request)

C26_Witness ==
    /\ origin = BACKEND_ORIGIN_ID
    /\ request = <<"/", "backend", "/", "s">>
    /\ target = "lb/service"

\* C27: every request to GET /backend/posts, GET /backend/posts/:id/detail or
\* POST /backend/posts eventually gets a response, also when the migration or
\* the query fails.
C27_EveryRequestAnswered ==
    \A r \in Requests :
        (reqs[r].route \in {"GET /backend/posts", "GET /backend/posts/:id/detail",
                            "POST /backend/posts"})
            ~> (reqs[r].pc = "responded")

\* C28: the migration is started exactly once per process, and no handler has
\* issued a query, and /ready has not answered 200, unless that run of the
\* migration has completed successfully.
C28_MigrationOnceBeforeQueries ==
    /\ server.starts = (IF server.pc = "loading" THEN 0 ELSE 1)
    /\ \A r \in Requests :
        /\ reqs[r].queried => server.migration = "done"
        /\ (reqs[r].route = "GET /ready" /\ reqs[r].status = "200")
                => server.migration = "done"

C28_Witness ==
    /\ reqs[1].route = "POST /backend/posts" /\ reqs[1].status = "201"
    /\ reqs[2].route = "GET /ready" /\ reqs[2].status = "200"

\* C30: once the POST of a submitted post, the refetch that closing the modal
\* scheduled and all responses are through, the displayed list has the post.
C30_NewPostDisplayed ==
    (/\ ui.timers = 0
     /\ net.posting = {}
     /\ net.gets = {})
    => \A k \in 1..ui.submitted : k \in ui.posts

====
